---- MODULE Spec2Model ----
(***************************************************************************)
(* Mesh session coordinator of the conference page: the useWebRTC hook     *)
(* (src/src/hooks/useSocket.ts, lines 192-572) driven by the Call Channel  *)
(* socket, the platform media API and the PeerJS endpoint.                 *)
(*                                                                         *)
(* One action per handler / effect / callback of the hook.  Everything     *)
(* runs on one event-dispatch thread, so each handler is one atomic step;  *)
(* the suspension points (getUserMedia, peer 'open', the 1 s grace timer,  *)
(* remote events) are separate actions.                                    *)
(***************************************************************************)
EXTENDS Integers, Sequences, FiniteSets, TLC

\* ---- bounds of the model ------------------------------------------------
MaxInits == 2      \* runs of the init effect (mount + dependency changes)
MaxCalls == 3      \* connection handles open at once
MaxTimers == 2     \* deferred originations pending at once
MaxToggles == 2    \* toggleVideo() calls that reach the track
MaxInput == 7      \* characters of a value handed to the meeting-ID input
MaxMessages == 3   \* chat messages sent in the meeting
MaxChatToggles == 3 \* join-meeting messages on one connection of the chat socket
MaxRedirects == 2  \* join-error redirect timers pending at once
MaxSockets == 5    \* sockets one useSocket instance creates over its life

\* ---- constants of the program ------------------------------------------------
Cap == 10          \* participants a meeting admits
IdLen == 6         \* digits of a meeting ID

\* ---- inputs -------------------------------------------------------------
PeerIds == {"A", "B"}
Names == {"Ana", "Bob"}
\* the display name a remote participant announces in its own join-room
PeerName(p) == IF p = "A" THEN "Ana" ELSE "Bob"
Placeholder == "Usuario"
NoName == ""
VideoFlags == {"true", "false", "undefined"}
Runs == 1..MaxInits

NoRec == [userName |-> NoName, call |-> 0, stream |-> 0, isVideoEnabled |-> FALSE]
NoCall == [peer |-> "", dir |-> "none", open |-> FALSE, streamed |-> FALSE,
           owner |-> 0, local |-> 0]
Handles == 1..MaxCalls
NoJoin == [peerId |-> 0, userName |-> FALSE, isVideoEnabled |-> "undefined"]
\* characters a user can put into the meeting-ID input
Chars == {"4", "x"}
DigitChars == {"0", "1", "2", "3", "4", "5", "6", "7", "8", "9"}
InputValues == UNION {[1..n -> Chars] : n \in 0..MaxInput}
NoResponse == [ok |-> FALSE, participantCount |-> 0]
NoRun == [st |-> "none", audio |-> FALSE, video |-> FALSE, stopped |-> FALSE]

VARIABLES
  phase,           \* "idle" (socket not yet seen by a render), "active", "closed"
  sock,            \* Call Channel socket: connecting/connected/disconnected/closed
  run,             \* number of runs of the init effect so far
  runs,            \* per run: getUserMedia / Peer status and the stream's tracks
  localStream,     \* React state: 0 = null, else the run whose stream it is
  cleanupStream,   \* localStream as captured by the pending cleanup closure
  ujStream,        \* 0 = user-joined handlers not registered, else captured localStream
  peerInstance,    \* peerInstance.current: 0 = null, else the run that created it
  myPeerId,        \* myPeerIdRef.current: 0 = null
  isInitialized, error, permissionState, isMuted, isVideoOff,
  peersRef,        \* peersRef.current
  peers,           \* published React state
  participantsRef, \* participantsRef.current
  calls,           \* the connection handles (MediaConnection); a closed one is forgotten
  timers,          \* pending setTimeout callbacks of handleUserJoined, FIFO
  chat,            \* Membership Channel socket, as sock
  lookup,          \* directory lookup for the meeting: none/pending/ok/full/notfound
  joinEmits,       \* join-room messages emitted, per announced peerId
  lastJoin,        \* payload of the last join-room message
  nToggles,        \* toggleVideo() calls that flipped the track
  toggleEmits,     \* toggle-video messages emitted, in order
  meetingId,       \* join form: the meeting-ID input state
  isJoining,       \* join form: a submission is in progress
  formError,       \* join form: the error shown, "" = none
  fetchId,         \* the meetingId captured by the running handleJoinMeeting
  response,        \* the last answer of /api/meetings/:id: ok and participantCount
  route,           \* the router's location: meeting / conference / home / elsewhere
  joined,          \* conference page: !isJoining
  isChatOpen, unreadMessages,
  messages,        \* conference page: the message list, as message numbers
  sent,            \* messages the meeting holds on the server
  joinMeetingEmits,\* join-meeting messages emitted since the chat socket connected
  redirects,       \* pending setTimeout(() => navigate('/meeting'), 3000) callbacks
  autoConnect,     \* useSocket instance: its autoConnect argument
  hookState,       \* useSocket instance: rendered / mounted / unmounted
  socketRef,       \* useSocket instance: socketRef.current, 0 = null
  io,              \* the sockets io() returned, by number: none / connecting /
                   \* connected / failed (reconnection gave up) / closed (disconnect())
  isConnected,     \* useSocket instance: React state
  lastEvent        \* the last connection event a handler of the instance saw

hookVars == <<phase, run, runs, localStream, cleanupStream, ujStream, peerInstance,
              myPeerId, isInitialized, error, permissionState, isMuted, isVideoOff>>
meshVars == <<peersRef, peers, participantsRef, calls, timers>>
navVars == <<chat, lookup>>
formVars == <<meetingId, isJoining, formError, fetchId, response>>
pageVars == <<route, joined, isChatOpen, unreadMessages, messages, sent, joinMeetingEmits,
              redirects>>
socketVars == <<autoConnect, hookState, socketRef, io, isConnected, lastEvent>>
vars == <<hookVars, meshVars, sock, navVars, formVars, pageVars, socketVars, joinEmits, lastJoin,
          nToggles, toggleEmits>>

\* ---- helpers ------------------------------------------------------------
Has(p) == peersRef[p].call # 0

\* `isVideoEnabled ?? true`
NullishTrue(v) == v # "false"

\* a stream exists for run i once getUserMedia resolved
Acquired(i) == runs[i].st \in {"connecting", "open", "destroyed"}

PeerAlive(i) == i # 0 /\ runs[i].st \in {"connecting", "open"}

OpenCalls == {h \in Handles : calls[h].open}

\* call.close() on every handle of H
CloseAll(cs, H) == [h \in Handles |-> IF h \in H THEN NoCall ELSE cs[h]]

\* the handle the next MediaConnection gets
FreeHandle == CHOOSE h \in Handles : ~calls[h].open /\ \A g \in Handles : g < h => calls[g].open

\* peersRef.current.delete(peer) run by the 'close' handler of every handle in H
DeleteFor(reg, H) == [p \in PeerIds |-> IF \E h \in H : calls[h].peer = p THEN NoRec ELSE reg[p]]

\* `/^\d{6}$/.test(id)`
SixDigits(id) == Len(id) = IdLen /\ \A k \in 1..Len(id) : id[k] \in DigitChars

\* `value.replace(/\D/g, '').slice(0, 6)`
IsDigit(c) == c \in DigitChars
OnlyDigits(value) ==
  LET d == SelectSeq(value, IsDigit)
  IN SubSeq(d, 1, IF Len(d) < IdLen THEN Len(d) ELSE IdLen)

\* a meeting ID as the join form accepted it
SomeId == [k \in 1..IdLen |-> "4"]

\* a useSocket instance after its first render, before its effect ran; the
\* conference page passes autoConnect = true
SocketIds == 1..MaxSockets

SocketInit ==
  /\ autoConnect = TRUE
  /\ hookState = "rendered"
  /\ socketRef = 0
  /\ io = [k \in SocketIds |-> "none"]
  /\ isConnected = FALSE
  /\ lastEvent = "none"

\* the useState initial values of the conference page
PageInit ==
  /\ joined = FALSE
  /\ isChatOpen = FALSE
  /\ unreadMessages = 0
  /\ messages = <<>>
  /\ sent = 0
  /\ joinMeetingEmits = 0
  /\ redirects = 0

Init ==
  /\ phase = "idle"
  /\ sock = "connecting"
  /\ chat = "connecting"
  /\ lookup = "ok"
  /\ meetingId = SomeId
  /\ isJoining = FALSE
  /\ formError = ""
  /\ fetchId = SomeId
  /\ response = [ok |-> TRUE, participantCount |-> 0]
  /\ route = "conference"
  /\ PageInit
  /\ SocketInit
  /\ run = 0
  /\ runs = [i \in Runs |-> NoRun]
  /\ localStream = 0
  /\ cleanupStream = 0
  /\ ujStream = 0
  /\ peerInstance = 0
  /\ myPeerId = 0
  /\ isInitialized = FALSE
  /\ error = "none"
  /\ permissionState = "prompt"
  /\ isMuted = FALSE
  /\ isVideoOff = FALSE
  /\ peersRef = [p \in PeerIds |-> NoRec]
  /\ peers = [p \in PeerIds |-> NoRec]
  /\ participantsRef = [p \in PeerIds |-> NoName]
  /\ calls = [h \in Handles |-> NoCall]
  /\ timers = <<>>
  /\ joinEmits = [i \in Runs |-> 0]
  /\ lastJoin = NoJoin
  /\ nToggles = 0
  /\ toggleEmits = <<>>

\* ---- getting to the conference page ------------------------------------------

\* the application before the conference page is mounted: no socket, no lookup
InitNav ==
  /\ phase = "away"
  /\ sock = "none"
  /\ chat = "none"
  /\ lookup = "none"
  /\ meetingId = <<>>
  /\ isJoining = FALSE
  /\ formError = ""
  /\ fetchId = <<>>
  /\ response = NoResponse
  /\ route = "meeting"
  /\ PageInit
  /\ SocketInit
  /\ run = 0
  /\ runs = [i \in Runs |-> NoRun]
  /\ localStream = 0
  /\ cleanupStream = 0
  /\ ujStream = 0
  /\ peerInstance = 0
  /\ myPeerId = 0
  /\ isInitialized = FALSE
  /\ error = "none"
  /\ permissionState = "prompt"
  /\ isMuted = FALSE
  /\ isVideoOff = FALSE
  /\ peersRef = [p \in PeerIds |-> NoRec]
  /\ peers = [p \in PeerIds |-> NoRec]
  /\ participantsRef = [p \in PeerIds |-> NoName]
  /\ calls = [h \in Handles |-> NoCall]
  /\ timers = <<>>
  /\ joinEmits = [i \in Runs |-> 0]
  /\ lastJoin = NoJoin
  /\ nToggles = 0
  /\ toggleEmits = <<>>

\* the Conference component mounts: both useSocket effects create their socket
MountConference ==
  /\ phase = "away"
  /\ phase' = "idle"
  /\ sock' = "connecting"
  /\ chat' = "connecting"
  /\ route' = "conference"
  /\ UNCHANGED <<joined, isChatOpen, unreadMessages, messages, sent, joinMeetingEmits, redirects>>
  /\ UNCHANGED <<run, runs, localStream, cleanupStream, ujStream, peerInstance, myPeerId,
                 isInitialized, error, permissionState, isMuted, isVideoOff>>
  /\ UNCHANGED <<meshVars, joinEmits, lastJoin, nToggles, toggleEmits>>

\* the meeting-ID input changes to value
handleMeetingIdChange(value) ==
  /\ phase = "away"
  /\ meetingId' = OnlyDigits(value)
  /\ formError' = ""
  /\ UNCHANGED <<isJoining, fetchId, response, pageVars, socketVars>>
  /\ UNCHANGED <<hookVars, meshVars, sock, chat, lookup, joinEmits, lastJoin, nToggles, toggleEmits>>

\* handleJoinMeeting up to its fetch of /api/meetings/:id, or to the return of
\* its format check
StartLookup ==
  /\ phase = "away"
  /\ lookup # "pending"
  /\ IF SixDigits(meetingId)
     THEN /\ lookup' = "pending"
          /\ isJoining' = TRUE
          /\ formError' = ""
          /\ fetchId' = meetingId
     ELSE /\ formError' = "format"
          /\ isJoining' = FALSE
          /\ UNCHANGED <<lookup, fetchId>>
  /\ UNCHANGED <<meetingId, response, pageVars, socketVars>>
  /\ UNCHANGED <<hookVars, meshVars, sock, chat, joinEmits, lastJoin, nToggles, toggleEmits>>

\* LookupOutcome that refuses only above the cap
LookupOutcomeAdmittingTenth(exists, participantCount) ==
  IF ~exists THEN "notfound"
  ELSE IF participantCount > Cap THEN "full"
  ELSE "ok"

\* what handleJoinMeeting makes of the response
LookupOutcome(exists, participantCount) ==
  IF ~exists THEN "notfound"
  ELSE IF participantCount >= Cap THEN "full"
  ELSE "ok"

\* the fetch of handleJoinMeeting returns: an error message, or navigate() to
\* the conference route
LookupResult(exists, participantCount) ==
  /\ phase = "away"
  /\ lookup = "pending"
  /\ lookup' = LookupOutcome(exists, participantCount)
  /\ isJoining' = FALSE
  /\ response' = [ok |-> exists, participantCount |-> IF exists THEN participantCount ELSE 0]
  /\ UNCHANGED <<meetingId, fetchId, socketVars>>
  /\ IF lookup' = "ok"
     THEN MountConference /\ UNCHANGED formError
     ELSE /\ formError' = lookup'
          /\ UNCHANGED pageVars
          /\ UNCHANGED <<hookVars, meshVars, sock, chat, joinEmits, lastJoin, nToggles, toggleEmits>>

\* the route /conference/:meetingId entered by its URL
EnterDirect ==
  /\ lookup # "pending"
  /\ MountConference
  /\ UNCHANGED <<lookup, formVars, socketVars>>

\* ---- the init effect and its cleanup -------------------------------------

\* where the router is once the conference page is gone: where a navigate() sent
\* it, or elsewhere if the user left by other means
Left == IF route = "conference" THEN "elsewhere" ELSE route

\* handles closed by peerInstance.current.destroy(): every open call of that endpoint
DestroyedCalls == IF PeerAlive(peerInstance)
                  THEN {h \in OpenCalls : calls[h].owner = peerInstance}
                  ELSE {}

\* handles closed by peersRef.current.forEach(peer => peer.call.close()); the
\* records of the destroyed endpoint are already gone (their 'close' handlers ran)
RegistryCalls == {h \in OpenCalls \ DestroyedCalls :
                    \E p \in PeerIds : DeleteFor(peersRef, DestroyedCalls)[p].call = h}

\* the cleanup returned by the init effect (cs is the localStream it captured):
\* what it leaves of the runs, the handles and the published snapshot
ClosedByCleanup == DestroyedCalls \cup RegistryCalls

CleanupRuns(cs) ==
  [i \in Runs |->
     [runs[i] EXCEPT
        !.stopped = IF i = cs THEN TRUE ELSE @,
        !.st = IF i = peerInstance /\ PeerAlive(i) THEN "destroyed" ELSE @]]

CleanupPeers(stillMounted) ==
  IF ClosedByCleanup # {} /\ stillMounted
  THEN DeleteFor(peersRef, ClosedByCleanup)
  ELSE peers

\* first run of the init effect: socket and roomId are set, initWebRTC() starts
InitEffect ==
  /\ phase = "idle"
  /\ phase' = "active"
  /\ run' = 1
  /\ runs' = [runs EXCEPT ![1].st = "pending"]
  /\ cleanupStream' = localStream
  /\ UNCHANGED <<localStream, ujStream, peerInstance, myPeerId, isInitialized, error,
                 permissionState, isMuted, isVideoOff>>
  /\ UNCHANGED <<meshVars, sock, navVars, formVars, socketVars, pageVars, joinEmits, lastJoin, nToggles, toggleEmits>>

\* a dependency (userName, roomId) changes: cleanup of the previous run, then
\* initWebRTC() again
ReInit ==
  /\ phase = "active"
  /\ run < MaxInits
  /\ run' = run + 1
  /\ runs' = [CleanupRuns(cleanupStream) EXCEPT ![run + 1].st = "pending"]
  /\ calls' = CloseAll(calls, ClosedByCleanup)
  /\ peersRef' = [p \in PeerIds |-> NoRec]
  /\ peers' = CleanupPeers(TRUE)
  /\ cleanupStream' = localStream
  /\ UNCHANGED <<phase, localStream, ujStream, peerInstance, myPeerId, isInitialized,
                 error, permissionState, isMuted, isVideoOff>>
  /\ UNCHANGED <<participantsRef, timers, sock, navVars, formVars, socketVars, pageVars, joinEmits, lastJoin, nToggles, toggleEmits>>

\* Unmount whose cleanup only stops the tracks: the endpoint is not destroyed,
\* the handles of the registry are not closed and the registry is not cleared
UnmountKeepingRegistry ==
  /\ phase \in {"idle", "active"}
  /\ phase' = "closed"
  /\ runs' = [i \in Runs |-> [runs[i] EXCEPT !.stopped = IF i = cleanupStream THEN TRUE ELSE @]]
  /\ ujStream' = 0
  /\ sock' = "closed"
  /\ chat' = "closed"
  /\ route' = Left
  /\ UNCHANGED <<joined, isChatOpen, unreadMessages, messages, sent, joinMeetingEmits, redirects>>
  /\ UNCHANGED <<lookup, formVars, socketVars>>
  /\ UNCHANGED <<run, localStream, cleanupStream, peerInstance, myPeerId, isInitialized,
                 error, permissionState, isMuted, isVideoOff>>
  /\ UNCHANGED <<meshVars, joinEmits, lastJoin, nToggles, toggleEmits>>

\* the component unmounts (handleEndCall navigates away, or any other route
\* change): the cleanups of every effect run and both sockets are disconnected
Unmount ==
  /\ phase \in {"idle", "active"}
  /\ phase' = "closed"
  /\ runs' = CleanupRuns(cleanupStream)
  /\ calls' = CloseAll(calls, ClosedByCleanup)
  /\ peersRef' = [p \in PeerIds |-> NoRec]
  /\ peers' = CleanupPeers(FALSE)
  /\ ujStream' = 0
  /\ sock' = "closed"
  /\ chat' = "closed"
  /\ route' = Left
  /\ UNCHANGED <<joined, isChatOpen, unreadMessages, messages, sent, joinMeetingEmits, redirects>>
  /\ UNCHANGED <<lookup, formVars, socketVars>>
  /\ UNCHANGED <<run, localStream, cleanupStream, peerInstance, myPeerId, isInitialized,
                 error, permissionState, isMuted, isVideoOff>>
  /\ UNCHANGED <<participantsRef, timers, joinEmits, lastJoin, nToggles, toggleEmits>>

\* getUserMedia of run i resolves: the rest of the try block of initWebRTC
GumResolve(i) ==
  /\ runs[i].st = "pending"
  /\ runs' = [runs EXCEPT ![i] = [st |-> "connecting", audio |-> TRUE, video |-> TRUE,
                                  stopped |-> FALSE]]
  /\ peerInstance' = i
  /\ IF phase = "active"
     THEN /\ localStream' = i
          /\ permissionState' = "granted"
          /\ ujStream' = i
     ELSE UNCHANGED <<localStream, permissionState, ujStream>>
  /\ UNCHANGED <<phase, run, cleanupStream, myPeerId, isInitialized, error, isMuted,
                 isVideoOff>>
  /\ UNCHANGED <<meshVars, sock, navVars, formVars, socketVars, pageVars, joinEmits, lastJoin, nToggles, toggleEmits>>

\* getUserMedia of run i rejects: the catch block of initWebRTC
GumReject(i) ==
  /\ runs[i].st = "pending"
  /\ runs' = [runs EXCEPT ![i].st = "failed"]
  /\ IF phase = "active"
     THEN /\ error' = "media"
          /\ permissionState' = "denied"
     ELSE UNCHANGED <<error, permissionState>>
  /\ UNCHANGED <<phase, run, localStream, cleanupStream, ujStream, peerInstance, myPeerId,
                 isInitialized, isMuted, isVideoOff>>
  /\ UNCHANGED <<meshVars, sock, navVars, formVars, socketVars, pageVars, joinEmits, lastJoin, nToggles, toggleEmits>>

\* peer.on('open') of the endpoint created by run i
PeerOpen(i) ==
  /\ runs[i].st = "connecting"
  /\ runs' = [runs EXCEPT ![i].st = "open"]
  /\ myPeerId' = i
  /\ IF sock = "connected"
     THEN /\ joinEmits' = [joinEmits EXCEPT ![i] = @ + 1]
          /\ lastJoin' = [peerId |-> i, userName |-> TRUE,
                          isVideoEnabled |-> IF ~runs[i].video THEN "false" ELSE "true"]
          /\ isInitialized' = (phase = "active" \/ isInitialized)
     ELSE UNCHANGED <<joinEmits, lastJoin, isInitialized>>
  /\ UNCHANGED <<phase, run, localStream, cleanupStream, ujStream, peerInstance, error,
                 permissionState, isMuted, isVideoOff>>
  /\ UNCHANGED <<meshVars, sock, navVars, formVars, socketVars, pageVars, nToggles, toggleEmits>>

\* ---- the Call Channel socket ----------------------------------------------

\* the reconnect / late-connection effect, as run after a render in which the
\* socket is connected
ReconnectJoins ==
  /\ phase = "active"
  /\ peerInstance # 0
  /\ ~isInitialized
  /\ runs[peerInstance].st = "open"

\* socket 'connect' (first connection or automatic reconnection) and the
\* effects of the render it causes
SockConnect ==
  /\ sock \in {"connecting", "disconnected"}
  /\ sock' = "connected"
  /\ IF ReconnectJoins
     THEN /\ joinEmits' = [joinEmits EXCEPT ![peerInstance] = @ + 1]
          /\ lastJoin' = [peerId |-> peerInstance, userName |-> TRUE,
                          isVideoEnabled |-> "undefined"]
          /\ isInitialized' = TRUE
     ELSE UNCHANGED <<joinEmits, lastJoin, isInitialized>>
  /\ UNCHANGED <<phase, run, runs, localStream, cleanupStream, ujStream, peerInstance,
                 myPeerId, error, permissionState, isMuted, isVideoOff>>
  /\ UNCHANGED <<meshVars, navVars, formVars, socketVars, pageVars, nToggles, toggleEmits>>

\* SockDisconnect treating the loss of signalling as the loss of the peers
SockDisconnectDropping ==
  /\ sock = "connected"
  /\ sock' = "disconnected"
  /\ calls' = CloseAll(calls, OpenCalls)
  /\ peersRef' = [p \in PeerIds |-> NoRec]
  /\ peers' = IF phase = "active" THEN peersRef' ELSE peers
  /\ UNCHANGED <<hookVars, participantsRef, timers, navVars, formVars, socketVars, pageVars, joinEmits, lastJoin, nToggles, toggleEmits>>

\* socket 'disconnect' / 'connect_error': the transport dropped
SockDisconnect ==
  /\ sock = "connected"
  /\ sock' = "disconnected"
  /\ UNCHANGED <<hookVars, meshVars, navVars, formVars, socketVars, pageVars, joinEmits, lastJoin, nToggles, toggleEmits>>

\* Membership Channel socket 'connect' / 'disconnect'
ChatConnect ==
  /\ chat \in {"connecting", "disconnected"}
  /\ chat' = "connected"
  /\ joinMeetingEmits' = 1
  /\ UNCHANGED <<route, joined, isChatOpen, unreadMessages, messages, sent, redirects>>
  /\ UNCHANGED <<hookVars, meshVars, sock, lookup, formVars, socketVars, joinEmits, lastJoin, nToggles, toggleEmits>>

ChatDisconnect ==
  /\ chat = "connected"
  /\ chat' = "disconnected"
  /\ UNCHANGED <<hookVars, meshVars, sock, lookup, formVars, socketVars, pageVars, joinEmits, lastJoin, nToggles, toggleEmits>>

\* handleEndCall of the conference page: both sockets are disconnected and the
\* router is told to leave; the unmount follows with the next render
HandleEndCall ==
  /\ phase \in {"idle", "active"}
  /\ sock # "closed"
  /\ sock' = "closed"
  /\ chat' = "closed"
  /\ route' = "home"
  /\ UNCHANGED <<joined, isChatOpen, unreadMessages, messages, sent, joinMeetingEmits, redirects>>
  /\ UNCHANGED <<hookVars, meshVars, lookup, formVars, socketVars, joinEmits, lastJoin, nToggles, toggleEmits>>

\* the leave button of the exit dialog; the dialog is part of the main view,
\* which is rendered once the join was answered and while no error is shown
EndCallButton ==
  /\ joined
  /\ redirects = 0
  /\ HandleEndCall

\* 'meeting-ended' on the Membership Channel: the handler calls handleEndCall
MeetingEnded ==
  /\ chat = "connected"
  /\ HandleEndCall

\* the navigation of handleEndCall takes effect
EndCallUnmount ==
  /\ sock = "closed"
  /\ Unmount

\* ---- the conference page on the Membership Channel ----------------------------

\* the handlers of the join effect are registered: the page is mounted and the
\* last render saw isConnected
Listening == phase \in {"idle", "active"} /\ chat = "connected"

History == [k \in 1..sent |-> k]

\* 'joined-meeting': the server's answer to join-meeting carries its message list
JoinedMeeting ==
  /\ Listening
  /\ joined' = TRUE
  /\ messages' = History
  /\ UNCHANGED <<route, isChatOpen, unreadMessages, sent, joinMeetingEmits, redirects>>
  /\ UNCHANGED <<hookVars, meshVars, sock, navVars, formVars, socketVars, joinEmits, lastJoin, nToggles, toggleEmits>>

\* 'join-error': the error is shown and the redirect is scheduled
JoinError ==
  /\ Listening
  /\ redirects < MaxRedirects
  /\ redirects' = redirects + 1
  /\ joined' = TRUE
  /\ UNCHANGED <<route, isChatOpen, unreadMessages, messages, sent, joinMeetingEmits>>
  /\ UNCHANGED <<hookVars, meshVars, sock, navVars, formVars, socketVars, joinEmits, lastJoin, nToggles, toggleEmits>>

\* the 'new-message' handler that counts every message as unread
NewMessageCounting(m) ==
  /\ messages' = Append(messages, m)
  /\ unreadMessages' = unreadMessages + 1

\* the 'new-message' handler
NewMessage(m) ==
  /\ messages' = Append(messages, m)
  /\ unreadMessages' = IF ~isChatOpen THEN unreadMessages + 1 ELSE unreadMessages

\* a participant sends a message: the server stores it and broadcasts
\* 'new-message' to the sockets in the room
SendMessage ==
  /\ sent < MaxMessages
  /\ sent' = sent + 1
  /\ IF Listening
     THEN NewMessage(sent + 1)
     ELSE UNCHANGED <<messages, unreadMessages>>
  /\ UNCHANGED <<route, joined, isChatOpen, joinMeetingEmits, redirects>>
  /\ UNCHANGED <<hookVars, meshVars, sock, navVars, formVars, socketVars, joinEmits, lastJoin, nToggles, toggleEmits>>

\* toggleChat (a button of the main view), and the join effect that runs again
\* because isChatOpen is one of its dependencies
toggleChat ==
  /\ phase \in {"idle", "active"}
  /\ joined
  /\ redirects = 0
  /\ isChatOpen' = ~isChatOpen
  /\ unreadMessages' = IF isChatOpen' THEN 0 ELSE unreadMessages
  /\ IF chat = "connected"
     THEN /\ joinMeetingEmits < MaxChatToggles
          /\ joinMeetingEmits' = joinMeetingEmits + 1
     ELSE UNCHANGED joinMeetingEmits
  /\ UNCHANGED <<route, joined, messages, sent, redirects>>
  /\ UNCHANGED <<hookVars, meshVars, sock, navVars, formVars, socketVars, joinEmits, lastJoin, nToggles, toggleEmits>>

\* a redirect timer of the 'join-error' handler fires: navigate('/meeting'),
\* which unmounts the conference page if it is still mounted
RedirectFires ==
  /\ redirects > 0
  /\ redirects' = redirects - 1
  /\ route' = "meeting"
  /\ UNCHANGED <<joined, isChatOpen, unreadMessages, messages, sent, joinMeetingEmits>>
  /\ UNCHANGED <<lookup, formVars, socketVars>>
  /\ IF phase \in {"idle", "active"}
     THEN /\ phase' = "closed"
          /\ runs' = CleanupRuns(cleanupStream)
          /\ calls' = CloseAll(calls, ClosedByCleanup)
          /\ peersRef' = [p \in PeerIds |-> NoRec]
          /\ peers' = CleanupPeers(FALSE)
          /\ ujStream' = 0
          /\ sock' = "closed"
          /\ chat' = "closed"
          /\ UNCHANGED <<run, localStream, cleanupStream, peerInstance, myPeerId, isInitialized,
                         error, permissionState, isMuted, isVideoOff>>
          /\ UNCHANGED <<participantsRef, timers, joinEmits, lastJoin, nToggles, toggleEmits>>
     ELSE UNCHANGED <<hookVars, meshVars, sock, chat, joinEmits, lastJoin, nToggles, toggleEmits>>

\* ---- the mesh: calls, streams and the registry -----------------------------

\* setPeers(new Map(peersRef.current)); a state update of an unmounted component is dropped
SetPeers(reg) == IF phase = "active" THEN reg ELSE peers

\* new MediaConnection: to/from peer p, of endpoint i, carrying local stream ls
NewCall(p, d, i, ls) == [peer |-> p, dir |-> d, open |-> TRUE, streamed |-> FALSE,
                         owner |-> i, local |-> ls]

\* peerInstance.current.call(peerId, localStream): PeerJS returns nothing once the
\* endpoint is disconnected or destroyed
PeerCall == PeerAlive(peerInstance)

\* IncomingCall that registers the caller at once, before any remote stream
IncomingCallRegistering(i, p) ==
  /\ runs[i].st = "open"
  /\ OpenCalls # Handles
  /\ calls' = [calls EXCEPT ![FreeHandle] =
                 [peer |-> p, dir |-> "in", open |-> TRUE, streamed |-> FALSE,
                  owner |-> i, local |-> i]]
  /\ peersRef' = [peersRef EXCEPT ![p] =
                    [userName |-> Placeholder, call |-> FreeHandle, stream |-> 0,
                     isVideoEnabled |-> TRUE]]
  /\ peers' = IF phase = "active" THEN peersRef' ELSE peers
  /\ UNCHANGED <<hookVars, participantsRef, timers, sock, navVars, formVars, socketVars, pageVars, joinEmits, lastJoin,
                 nToggles, toggleEmits>>

\* peer.on('call'): endpoint i receives a call from p and answers with its stream
IncomingCall(i, p) ==
  /\ runs[i].st = "open"
  /\ OpenCalls # Handles
  /\ calls' = [calls EXCEPT ![FreeHandle] = NewCall(p, "in", i, i)]
  /\ UNCHANGED <<hookVars, peersRef, peers, participantsRef, timers, sock, navVars, formVars, socketVars, pageVars, joinEmits, lastJoin,
                 nToggles, toggleEmits>>

\* AnsweredStream that ignores the name cache
AnsweredStreamAnonymous(h) ==
  LET p == calls[h].peer
      peerConnection == [userName |-> Placeholder, call |-> h, stream |-> h,
                         isVideoEnabled |-> TRUE]
  IN /\ peersRef' = [peersRef EXCEPT ![p] = peerConnection]
     /\ peers' = IF phase = "active" THEN peersRef' ELSE peers

\* call.on('stream') of an answered call: the record is (re)created
AnsweredStream(h) ==
  LET p == calls[h].peer
      storedName == participantsRef[p]
      peerConnection == [userName |-> IF storedName # NoName THEN storedName
                                       ELSE Placeholder,
                         call |-> h, stream |-> h, isVideoEnabled |-> TRUE]
  IN /\ peersRef' = [peersRef EXCEPT ![p] = peerConnection]
     /\ peers' = SetPeers(peersRef')

\* OriginatedStream that drops the remote stream of the call it placed
OriginatedStreamDropped(h) ==
  UNCHANGED <<peersRef, peers>>

\* call.on('stream') of an originated call: the stream is merged into the record
OriginatedStream(h) ==
  LET p == calls[h].peer IN
  IF Has(p)
  THEN /\ peersRef' = [peersRef EXCEPT ![p].stream = h]
       /\ peers' = SetPeers(peersRef')
  ELSE UNCHANGED <<peersRef, peers>>

\* the remote stream of handle h arrives (PeerJS emits 'stream' once per track,
\* so it may arrive again)
RemoteStream(h) ==
  /\ calls[h].open
  /\ IF calls[h].dir = "in" THEN AnsweredStream(h) ELSE OriginatedStream(h)
  /\ UNCHANGED <<hookVars, participantsRef, calls, timers, sock, navVars, formVars, socketVars, pageVars, joinEmits, lastJoin, nToggles, toggleEmits>>

\* CallClose that deletes the record without publishing a new snapshot
CallCloseUnpublished(h) ==
  /\ calls[h].open
  /\ calls' = CloseAll(calls, {h})
  /\ peersRef' = DeleteFor(peersRef, {h})
  /\ UNCHANGED peers
  /\ UNCHANGED <<hookVars, participantsRef, timers, sock, navVars, formVars, socketVars, pageVars, joinEmits, lastJoin, nToggles, toggleEmits>>

\* call.on('close'): the remote side hung up or the transport failed
CallClose(h) ==
  /\ calls[h].open
  /\ calls' = CloseAll(calls, {h})
  /\ peersRef' = DeleteFor(peersRef, {h})
  /\ peers' = SetPeers(peersRef')
  /\ UNCHANGED <<hookVars, participantsRef, timers, sock, navVars, formVars, socketVars, pageVars, joinEmits, lastJoin, nToggles, toggleEmits>>

\* CallError escalating the failure of one connection to the session: every
\* handle is closed and the registry is emptied
CallErrorTearingDown(h) ==
  /\ calls[h].open
  /\ calls[h].dir = "out"
  /\ calls' = CloseAll(calls, OpenCalls)
  /\ peersRef' = [p \in PeerIds |-> NoRec]
  /\ peers' = SetPeers(peersRef')
  /\ UNCHANGED <<hookVars, participantsRef, timers, sock, navVars, formVars, socketVars, pageVars, joinEmits, lastJoin, nToggles, toggleEmits>>

\* call.on('error') of an originated call; PeerJS closes the failed connection
CallError(h) ==
  /\ calls[h].open
  /\ calls[h].dir = "out"
  /\ calls' = CloseAll(calls, {h})
  /\ peersRef' = DeleteFor(peersRef, {h})
  /\ peers' = SetPeers(peersRef')
  /\ UNCHANGED <<hookVars, participantsRef, timers, sock, navVars, formVars, socketVars, pageVars, joinEmits, lastJoin, nToggles, toggleEmits>>

\* peer.on('error') of the endpoint of run i with a non-fatal error type
\* ('peer-unavailable', 'webrtc'): the message is published, nothing else
PeerError(i) ==
  /\ PeerAlive(i)
  /\ error' = IF phase = "active" THEN "peer" ELSE error
  /\ UNCHANGED <<phase, run, runs, localStream, cleanupStream, ujStream, peerInstance,
                 myPeerId, isInitialized, permissionState, isMuted, isVideoOff>>
  /\ UNCHANGED <<meshVars, sock, navVars, formVars, socketVars, pageVars, joinEmits, lastJoin, nToggles, toggleEmits>>

\* HandleUserJoined that calls at once instead of waiting for the grace interval
HandleUserJoinedEager(peerId, userName, isVideoEnabled) ==
  /\ participantsRef' = [participantsRef EXCEPT ![peerId] = userName]
  /\ IF Has(peerId) \/ ~PeerAlive(peerInstance)
     THEN UNCHANGED <<calls, peersRef, peers>>
     ELSE /\ OpenCalls # Handles
          /\ calls' = [calls EXCEPT ![FreeHandle] =
                         [peer |-> peerId, dir |-> "out", open |-> TRUE, streamed |-> FALSE,
                          owner |-> peerInstance, local |-> ujStream]]
          /\ peersRef' = [peersRef EXCEPT ![peerId] =
                            [userName |-> userName, call |-> FreeHandle, stream |-> 0,
                             isVideoEnabled |-> NullishTrue(isVideoEnabled)]]
          /\ peers' = IF phase = "active" THEN peersRef' ELSE peers
  /\ UNCHANGED <<hookVars, timers, sock, navVars, formVars, socketVars, pageVars, joinEmits, lastJoin, nToggles, toggleEmits>>

\* HandleUserJoined without the check of the registry: the origination is
\* scheduled for every notification
HandleUserJoinedUnchecked(peerId, userName, isVideoEnabled) ==
  /\ participantsRef' = [participantsRef EXCEPT ![peerId] = userName]
  /\ Len(timers) < MaxTimers
  /\ timers' = Append(timers, [peerId |-> peerId, userName |-> userName,
                               isVideoEnabled |-> NullishTrue(isVideoEnabled),
                               localStream |-> ujStream])
  /\ UNCHANGED <<hookVars, peersRef, peers, calls, sock, navVars, formVars, socketVars, pageVars, joinEmits, lastJoin,
                 nToggles, toggleEmits>>

\* socket 'user-joined': cache the name, and unless the registry has the peer,
\* defer the origination by the grace interval.  The pending callback is kept
\* as what it will use: peerId, userName, `isVideoEnabled ?? true` and the
\* localStream of the closure
HandleUserJoined(peerId, userName, isVideoEnabled) ==
  /\ participantsRef' = [participantsRef EXCEPT ![peerId] = userName]
  /\ IF Has(peerId)
     THEN UNCHANGED timers
     ELSE /\ Len(timers) < MaxTimers
          /\ timers' = Append(timers, [peerId |-> peerId, userName |-> userName,
                                       isVideoEnabled |-> NullishTrue(isVideoEnabled),
                                       localStream |-> ujStream])
  /\ UNCHANGED <<hookVars, peersRef, peers, calls, sock, navVars, formVars, socketVars, pageVars, joinEmits, lastJoin, nToggles, toggleEmits>>

UserJoined(p, n, v) ==
  /\ ujStream # 0
  /\ sock = "connected"
  /\ HandleUserJoined(p, n, v)

\* the setTimeout callback of handleUserJoined
Originate(t) ==
  IF PeerCall
  THEN LET h == FreeHandle
           peerConnection == [userName |-> t.userName, call |-> h, stream |-> 0,
                              isVideoEnabled |-> t.isVideoEnabled]
       IN /\ OpenCalls # Handles
          /\ calls' = [calls EXCEPT ![h] = NewCall(t.peerId, "out", peerInstance,
                                                   t.localStream)]
          /\ peersRef' = [peersRef EXCEPT ![t.peerId] = peerConnection]
          /\ peers' = SetPeers(peersRef')
  ELSE UNCHANGED <<calls, peersRef, peers>>

\* the grace timer at the head of the queue fires (equal delays fire in order)
FireTimer ==
  /\ timers # <<>>
  /\ timers' = Tail(timers)
  /\ Originate(Head(timers))
  /\ UNCHANGED <<hookVars, participantsRef, sock, navVars, formVars, socketVars, pageVars, joinEmits, lastJoin, nToggles, toggleEmits>>

\* HandleUserDisconnected that forgets the record without hanging up
HandleUserDisconnectedKeepingCall(peerId) ==
  /\ peersRef' = [peersRef EXCEPT ![peerId] = NoRec]
  /\ peers' = IF phase = "active" THEN peersRef' ELSE peers
  /\ UNCHANGED <<hookVars, participantsRef, calls, timers, sock, navVars, formVars, socketVars, pageVars, joinEmits,
                 lastJoin, nToggles, toggleEmits>>

\* socket 'user-disconnected'
HandleUserDisconnected(peerId) ==
  LET h == peersRef[peerId].call
      closed == IF h # 0 /\ calls[h].open THEN {h} ELSE {}
  IN /\ calls' = CloseAll(calls, closed)
     /\ peersRef' = [DeleteFor(peersRef, closed) EXCEPT ![peerId] = NoRec]
     /\ peers' = SetPeers(peersRef')
     /\ UNCHANGED <<hookVars, participantsRef, timers, sock, navVars, formVars, socketVars, pageVars, joinEmits, lastJoin, nToggles, toggleEmits>>

UserDisconnected(p) ==
  /\ ujStream # 0
  /\ sock = "connected"
  /\ HandleUserDisconnected(p)

\* roster snapshots: a function from some of the peers to (userName, isVideoEnabled)
Rosters == UNION {[S -> [userName : Names, isVideoEnabled : VideoFlags]] :
                    S \in SUBSET PeerIds}

\* HandleGetUsers of a newcomer that calls everybody the roster lists
HandleGetUsersCalling(participants) ==
  LET new == {p \in DOMAIN participants : ~Has(p)}
      p == CHOOSE q \in new : TRUE
  IN /\ participantsRef' = [q \in PeerIds |->
                              IF q \in DOMAIN participants THEN participants[q].userName
                              ELSE participantsRef[q]]
     /\ IF new # {} /\ Len(timers) < MaxTimers
        THEN timers' = Append(timers, [peerId |-> p, userName |-> participants[p].userName,
                                       isVideoEnabled |-> NullishTrue(participants[p].isVideoEnabled),
                                       localStream |-> ujStream])
        ELSE UNCHANGED timers
     /\ UNCHANGED <<hookVars, peersRef, peers, calls, sock, navVars, formVars, socketVars, pageVars, joinEmits, lastJoin, nToggles, toggleEmits>>

\* HandleGetUsers taking the roster as authoritative: records of peers the
\* snapshot lacks are dropped
HandleGetUsersReconciling(participants) ==
  /\ participantsRef' = [p \in PeerIds |->
                           IF p \in DOMAIN participants THEN participants[p].userName
                           ELSE participantsRef[p]]
  /\ peersRef' = [p \in PeerIds |->
                    IF p \in DOMAIN participants /\ Has(p)
                    THEN [peersRef[p] EXCEPT
                            !.userName = participants[p].userName,
                            !.isVideoEnabled = NullishTrue(participants[p].isVideoEnabled)]
                    ELSE NoRec]
  /\ peers' = SetPeers(peersRef')
  /\ UNCHANGED <<hookVars, calls, timers, sock, navVars, formVars, socketVars, pageVars, joinEmits, lastJoin, nToggles, toggleEmits>>

\* socket 'get-users'
HandleGetUsers(participants) ==
  /\ participantsRef' = [p \in PeerIds |->
                           IF p \in DOMAIN participants THEN participants[p].userName
                           ELSE participantsRef[p]]
  /\ peersRef' = [p \in PeerIds |->
                    IF p \in DOMAIN participants /\ Has(p)
                    THEN [peersRef[p] EXCEPT
                            !.userName = participants[p].userName,
                            !.isVideoEnabled = NullishTrue(participants[p].isVideoEnabled)]
                    ELSE peersRef[p]]
  /\ peers' = SetPeers(peersRef')
  /\ UNCHANGED <<hookVars, calls, timers, sock, navVars, formVars, socketVars, pageVars, joinEmits, lastJoin, nToggles, toggleEmits>>

GetUsers(participants) ==
  /\ phase = "active"
  /\ sock = "connected"
  /\ HandleGetUsers(participants)

\* HandleUserToggledVideo that inserts a record for a peer it does not know
HandleUserToggledVideoInserting(peerId, off) ==
  /\ peersRef' = [peersRef EXCEPT ![peerId] =
                    IF Has(peerId) THEN [@ EXCEPT !.isVideoEnabled = ~off]
                    ELSE [userName |-> Placeholder, call |-> 1, stream |-> 0,
                          isVideoEnabled |-> ~off]]
  /\ peers' = IF phase = "active" THEN peersRef' ELSE peers
  /\ UNCHANGED <<hookVars, participantsRef, calls, timers, sock, navVars, formVars, socketVars, pageVars, joinEmits,
                 lastJoin, nToggles, toggleEmits>>

\* socket 'user-toggled-video'
HandleUserToggledVideo(peerId, off) ==
  /\ IF Has(peerId)
     THEN /\ peersRef' = [peersRef EXCEPT ![peerId].isVideoEnabled = ~off]
          /\ peers' = SetPeers(peersRef')
     ELSE UNCHANGED <<peersRef, peers>>
  /\ UNCHANGED <<hookVars, participantsRef, calls, timers, sock, navVars, formVars, socketVars, pageVars, joinEmits, lastJoin, nToggles, toggleEmits>>

UserToggledVideo(p, off) ==
  /\ phase = "active"
  /\ sock = "connected"
  /\ HandleUserToggledVideo(p, off)

\* ---- local controls --------------------------------------------------------

toggleMute ==
  /\ phase = "active"
  /\ IF localStream # 0
     THEN /\ runs' = [runs EXCEPT ![localStream].audio = ~@]
          /\ isMuted' = ~runs'[localStream].audio
     ELSE UNCHANGED <<runs, isMuted>>
  /\ UNCHANGED <<phase, run, localStream, cleanupStream, ujStream, peerInstance, myPeerId,
                 isInitialized, error, permissionState, isVideoOff>>
  /\ UNCHANGED <<meshVars, sock, navVars, formVars, socketVars, pageVars, joinEmits, lastJoin, nToggles, toggleEmits>>

\* toggleVideo renegotiating: the calls are hung up so that they get placed again
toggleVideoRenegotiating ==
  /\ phase = "active"
  /\ IF localStream # 0
     THEN /\ nToggles < MaxToggles
          /\ runs' = [runs EXCEPT ![localStream].video = ~@]
          /\ isVideoOff' = ~runs'[localStream].video
          /\ nToggles' = nToggles + 1
          /\ toggleEmits' = IF myPeerId # 0
                            THEN Append(toggleEmits, [peerId |-> myPeerId,
                                                      isVideoOff |-> ~runs'[localStream].video])
                            ELSE toggleEmits
          /\ calls' = CloseAll(calls, OpenCalls)
          /\ peersRef' = [p \in PeerIds |-> NoRec]
          /\ peers' = peersRef'
     ELSE UNCHANGED <<runs, isVideoOff, nToggles, toggleEmits, calls, peersRef, peers>>
  /\ UNCHANGED <<phase, run, localStream, cleanupStream, ujStream, peerInstance, myPeerId,
                 isInitialized, error, permissionState, isMuted>>
  /\ UNCHANGED <<participantsRef, timers, sock, navVars, formVars, socketVars, pageVars, joinEmits, lastJoin>>

toggleVideo ==
  /\ phase = "active"
  /\ IF localStream # 0
     THEN /\ nToggles < MaxToggles
          /\ runs' = [runs EXCEPT ![localStream].video = ~@]
          /\ isVideoOff' = ~runs'[localStream].video
          /\ nToggles' = nToggles + 1
          /\ toggleEmits' = IF myPeerId # 0
                            THEN Append(toggleEmits, [peerId |-> myPeerId,
                                                      isVideoOff |-> ~runs'[localStream].video])
                            ELSE toggleEmits
     ELSE UNCHANGED <<runs, isVideoOff, nToggles, toggleEmits>>
  /\ UNCHANGED <<phase, run, localStream, cleanupStream, ujStream, peerInstance, myPeerId,
                 isInitialized, error, permissionState, isMuted>>
  /\ UNCHANGED <<meshVars, sock, navVars, formVars, socketVars, pageVars, joinEmits, lastJoin>>

\* ---- the specifications -------------------------------------------------

\* startup of one session
Startup ==
  \/ InitEffect
  \/ \E i \in Runs : GumResolve(i)
  \/ \E i \in Runs : PeerOpen(i)
  \/ SockConnect

\* startup of one session, its failure and its teardown
Lifecycle ==
  \/ Startup
  \/ \E i \in Runs : GumReject(i)
  \/ Unmount

\* call signalling and call events with the remote participants P
MeshOf(P) ==
  \/ \E i \in Runs, p \in P : IncomingCall(i, p)
  \/ \E h \in Handles : RemoteStream(h)
  \/ \E h \in Handles : CallClose(h)
  \/ \E h \in Handles : CallError(h)
  \/ \E p \in P, v \in VideoFlags : UserJoined(p, PeerName(p), v)
  \/ FireTimer
  \/ \E p \in P : UserDisconnected(p)

Mesh == MeshOf(PeerIds)

\* roster snapshots that carry each participant's announced name
NamedRosters == {r \in Rosters : \A p \in DOMAIN r : r[p].userName = PeerName(p)}

\* roster snapshots and remote camera notifications
Roster ==
  \/ \E r \in Rosters : GetUsers(r)
  \/ \E p \in PeerIds, off \in BOOLEAN : UserToggledVideo(p, off)

\* the local mute / camera buttons
Controls ==
  \/ toggleMute
  \/ toggleVideo

\* dependency changes of the init effect and drops of the signalling transport
Churn ==
  \/ ReInit
  \/ SockDisconnect

\* leaving through the hang-up button or because the host ended the meeting
Leave ==
  \/ JoinedMeeting
  \/ EndCallButton
  \/ MeetingEnded
  \/ EndCallUnmount
  \/ ChatConnect
  \/ ChatDisconnect

\* the ways into the conference page
Nav ==
  \/ \E value \in InputValues : handleMeetingIdChange(value)
  \/ StartLookup
  \/ \E exists \in BOOLEAN, n \in {Cap - 1, Cap} : LookupResult(exists, n)
  \/ EnterDirect

\* errors reported by the peer endpoint
Faults == \E i \in Runs : PeerError(i)

\* the conference page's chat, its join and its redirect
Page ==
  \/ JoinError
  \/ SendMessage
  \/ toggleChat
  \/ RedirectFires

\* one session with both remote participants
SpecMesh == Init /\ [][Lifecycle \/ Mesh]_vars

\* the same with the code's scheduling: a pending getUserMedia settles, a created
\* endpoint opens, the socket (re)connects, a scheduled grace timer fires
SpecFair ==
  /\ SpecMesh
  /\ WF_vars(\E i \in Runs : GumResolve(i) \/ GumReject(i))
  /\ WF_vars(\E i \in Runs : PeerOpen(i))
  /\ WF_vars(SockConnect)
  /\ WF_vars(FireTimer)

\* one session with roster snapshots and remote camera notifications
SpecRoster ==
  Init /\ [][Startup \/ Mesh
             \/ (\E r \in NamedRosters : GetUsers(r))
             \/ (\E p \in PeerIds, off \in BOOLEAN : UserToggledVideo(p, off))]_vars

\* one session with the local mute / camera buttons
SpecControls == Init /\ [][Startup \/ Mesh \/ Controls]_vars

\* sessions that are re-initialised, torn down and lose the signalling transport,
\* with one remote participant
SpecChurn == Init /\ [][Lifecycle \/ MeshOf({"A"}) \/ Churn]_vars

\* one session with both remote participants and endpoint errors
SpecFaults == Init /\ [][Startup \/ Mesh \/ Faults]_vars

\* one session that is left in any of the three ways; the router performs the
\* navigation that handleEndCall asked for
SpecLeave ==
  /\ Init
  /\ [][Lifecycle \/ MeshOf({"A"}) \/ Leave]_vars
  /\ WF_vars(EndCallUnmount)

\* the conference page with its chat and every way of leaving it; a scheduled
\* redirect timer fires
SpecPage ==
  /\ Init
  /\ [][Startup \/ Leave \/ Page]_vars
  /\ WF_vars(RedirectFires)

\* the application from the meeting page on: lookup, route entry, and one session
SpecNav == InitNav /\ [][Nav \/ Lifecycle \/ ChatConnect]_vars

\* the three-party scenario: each remote participant announces itself once and
\* calls once, every call delivers its remote stream once
PeerVideo(p) == IF p = "A" THEN "false" ELSE "true"

CalledBy(p) == {h \in OpenCalls : calls[h].peer = p /\ calls[h].dir = "in"}

JoinedOnce(p) == participantsRef[p] = NoName /\ UserJoined(p, PeerName(p), PeerVideo(p))

CalledOnce(p) == CalledBy(p) = {} /\ IncomingCall(1, p)

StreamOnce(h) ==
  /\ calls[h].open
  /\ ~calls[h].streamed
  /\ calls' = [calls EXCEPT ![h].streamed = TRUE]
  /\ IF calls[h].dir = "in" THEN AnsweredStream(h) ELSE OriginatedStream(h)
  /\ UNCHANGED <<hookVars, participantsRef, timers, sock, navVars, formVars, socketVars, pageVars, joinEmits, lastJoin, nToggles, toggleEmits>>

Scenario3 ==
  \/ \E p \in PeerIds : JoinedOnce(p)
  \/ \E p \in PeerIds : CalledOnce(p)
  \/ \E h \in Handles : StreamOnce(h)
  \/ FireTimer

Spec3 == Init /\ [][Startup \/ Scenario3]_vars

\* the two-party scenario in both roles: towards A the session is the newcomer
\* (A was told of it and calls once), towards B it is the participant already
\* present (B's join is delivered once); nothing fails and every call delivers
\* its remote stream once; meanwhile the Membership Channel connects and the user
\* may use the mute and camera buttons
Announced == \E i \in Runs : joinEmits[i] > 0

ScenarioPair ==
  \/ Announced /\ CalledOnce("A")
  \/ Announced /\ JoinedOnce("B")
  \/ \E h \in Handles : StreamOnce(h)
  \/ FireTimer

SpecPair ==
  /\ Init
  /\ [][Startup \/ ScenarioPair \/ ChatConnect \/ Controls]_vars
  /\ WF_vars(\E i \in Runs : GumResolve(i))
  /\ WF_vars(InitEffect)
  /\ WF_vars(\E i \in Runs : PeerOpen(i))
  /\ WF_vars(SockConnect)
  /\ WF_vars(Announced /\ CalledOnce("A"))
  /\ WF_vars(Announced /\ JoinedOnce("B"))
  /\ WF_vars(\E h \in Handles : StreamOnce(h))
  /\ WF_vars(FireTimer)

\* a room whose participants joined one after another: a remote participant p is
\* either older than the session (it is told of the session and calls it once;
\* the roster the session receives may list it) or newer (its join is delivered
\* once); nothing fails, nothing is delivered twice
Untouched(p) ==
  /\ CalledBy(p) = {}
  /\ {h \in OpenCalls : calls[h].peer = p} = {}
  /\ \A k \in 1..Len(timers) : timers[k].peerId # p

Older(p) == Announced /\ Untouched(p) /\ IncomingCall(1, p)

Newer(p) ==
  /\ Announced
  /\ Untouched(p)
  /\ participantsRef[p] = NoName
  /\ \E v \in VideoFlags : UserJoined(p, PeerName(p), v)

\* the roster sent to the session when it joins lists participants older than it
RosterOfOlder ==
  \E r \in NamedRosters :
     /\ Announced
     /\ \A p \in DOMAIN r : \A h \in OpenCalls : calls[h].peer = p => calls[h].dir = "in"
     /\ \A p \in DOMAIN r : \A k \in 1..Len(timers) : timers[k].peerId # p
     /\ GetUsers(r)

ScenarioOrder ==
  \/ \E p \in PeerIds : Older(p)
  \/ \E p \in PeerIds : Newer(p)
  \/ RosterOfOlder
  \/ \E h \in Handles : StreamOnce(h)
  \/ FireTimer

SpecOrder ==
  /\ Init
  /\ [][Startup \/ ScenarioOrder]_vars
  /\ WF_vars(\E i \in Runs : GumResolve(i))
  /\ WF_vars(InitEffect)
  /\ WF_vars(\E i \in Runs : PeerOpen(i))
  /\ WF_vars(SockConnect)
  /\ \A p \in PeerIds : WF_vars(Older(p) \/ Newer(p))
  /\ WF_vars(\E h \in Handles : StreamOnce(h))
  /\ WF_vars(FireTimer)

\* the roster and the calls of the participants already present race: the roster
\* (A with the camera off, B with the camera on) is applied once, each of them
\* calls once and each call delivers its remote stream once, in any order, while
\* the Membership Channel connects
RosterAB == [p \in PeerIds |-> [userName |-> PeerName(p), isVideoEnabled |-> PeerVideo(p)]]

RosterOnce ==
  /\ \A p \in PeerIds : participantsRef[p] = NoName
  /\ GetUsers(RosterAB)

ScenarioRace ==
  \/ \E p \in PeerIds : CalledOnce(p)
  \/ \E h \in Handles : StreamOnce(h)
  \/ RosterOnce

SpecRace == Init /\ [][Startup \/ ChatConnect \/ ScenarioRace]_vars

\* one remote participant whose display name may change between the roster and
\* its join notifications
RostersOfA == {[p \in {"A"} |-> [userName |-> n, isVideoEnabled |-> v]] :
                 n \in Names, v \in VideoFlags}

Naming ==
  \/ \E r \in RostersOfA : GetUsers(r)
  \/ \E n \in Names, v \in VideoFlags : UserJoined("A", n, v)
  \/ \E i \in Runs : IncomingCall(i, "A")
  \/ \E h \in Handles : RemoteStream(h)
  \/ \E h \in Handles : CallClose(h)
  \/ FireTimer

SpecNames == Init /\ [][Startup \/ Naming]_vars

\* one session with the local buttons, re-initialised when userName or roomId
\* changes
SpecRemount == Init /\ [][Lifecycle \/ ReInit \/ Controls]_vars

\* every way the registry is written, with one remote participant: stream and
\* close handlers, leave notifications, roster snapshots, remote camera
\* notifications, and the cleanup on re-initialisation and unmount
RegistryWrites ==
  \/ MeshOf({"A"})
  \/ \E r \in RostersOfA : r["A"].userName = PeerName("A") /\ GetUsers(r)
  \/ \E off \in BOOLEAN : UserToggledVideo("A", off)
  \/ ReInit

SpecSnapshot == Init /\ [][Lifecycle \/ RegistryWrites]_vars

\* ---- one useSocket instance ------------------------------------------------

Rest == <<hookVars, meshVars, sock, navVars, formVars, pageVars, joinEmits, lastJoin, nToggles,
          toggleEmits>>

\* the number io() gives the next socket
NextSocket == CHOOSE k \in SocketIds : io[k] = "none" /\ \A j \in SocketIds : j < k => io[j] # "none"

CanCreate == \E k \in SocketIds : io[k] = "none"

\* socket.disconnect() on the socket of the reference, if any: a connected socket
\* fires 'disconnect' synchronously; a state update during the unmount is dropped
Disconnected(sockets) ==
  [k \in SocketIds |-> IF k = socketRef THEN "closed" ELSE sockets[k]]

FiresDisconnect == socketRef # 0 /\ io[socketRef] = "connected"

\* the effect's cleanup followed by the effect with the new arguments
\* (serverUrl or autoConnect changed)
DepsChange(auto) ==
  /\ hookState = "mounted"
  /\ autoConnect' = auto
  /\ auto => CanCreate
  /\ io' = IF auto
           THEN [Disconnected(io) EXCEPT ![NextSocket] = "connecting"]
           ELSE Disconnected(io)
  /\ socketRef' = IF auto THEN NextSocket ELSE 0
  /\ isConnected' = IF FiresDisconnect THEN FALSE ELSE isConnected
  /\ lastEvent' = IF FiresDisconnect THEN "disconnect" ELSE lastEvent
  /\ UNCHANGED hookState
  /\ UNCHANGED Rest

\* the mount effect
MountEffect ==
  /\ hookState = "rendered"
  /\ hookState' = "mounted"
  /\ IF autoConnect /\ socketRef = 0
     THEN /\ io' = [io EXCEPT ![NextSocket] = "connecting"]
          /\ socketRef' = NextSocket
     ELSE UNCHANGED <<io, socketRef>>
  /\ UNCHANGED <<autoConnect, isConnected, lastEvent>>
  /\ UNCHANGED Rest

\* the cleanup on unmount
SocketUnmount ==
  /\ hookState = "mounted"
  /\ hookState' = "unmounted"
  /\ io' = Disconnected(io)
  /\ socketRef' = 0
  /\ lastEvent' = IF FiresDisconnect THEN "disconnect" ELSE lastEvent
  /\ UNCHANGED <<autoConnect, isConnected>>
  /\ UNCHANGED Rest

\* connect() that creates a socket whether or not the instance has one
connectAlways ==
  /\ hookState = "mounted"
  /\ CanCreate
  /\ io' = [io EXCEPT ![NextSocket] = "connecting"]
  /\ socketRef' = NextSocket
  /\ UNCHANGED <<autoConnect, hookState, isConnected, lastEvent>>
  /\ UNCHANGED Rest

\* connect()
connect ==
  /\ hookState = "mounted"
  /\ IF socketRef = 0
     THEN /\ CanCreate
          /\ io' = [io EXCEPT ![NextSocket] = "connecting"]
          /\ socketRef' = NextSocket
     ELSE /\ io' = IF io[socketRef] # "connected"
                   THEN [io EXCEPT ![socketRef] = "connecting"]
                   ELSE io
          /\ UNCHANGED socketRef
  /\ UNCHANGED <<autoConnect, hookState, isConnected, lastEvent>>
  /\ UNCHANGED Rest

\* disconnect()
disconnect ==
  /\ hookState = "mounted"
  /\ IF socketRef # 0
     THEN /\ io' = Disconnected(io)
          /\ isConnected' = IF FiresDisconnect THEN FALSE ELSE isConnected
          /\ lastEvent' = IF FiresDisconnect THEN "disconnect" ELSE lastEvent
     ELSE UNCHANGED <<io, isConnected, lastEvent>>
  /\ UNCHANGED <<autoConnect, hookState, socketRef>>
  /\ UNCHANGED Rest

\* 'connect' of socket k
OnConnect(k) ==
  /\ io[k] = "connecting"
  /\ io' = [io EXCEPT ![k] = "connected"]
  /\ isConnected' = IF hookState = "unmounted" THEN isConnected ELSE TRUE
  /\ lastEvent' = "connect"
  /\ UNCHANGED <<autoConnect, hookState, socketRef>>
  /\ UNCHANGED Rest

\* 'disconnect' of socket k because the transport was lost: socket.io reconnects
OnDisconnect(k) ==
  /\ io[k] = "connected"
  /\ io' = [io EXCEPT ![k] = "connecting"]
  /\ isConnected' = IF hookState = "unmounted" THEN isConnected ELSE FALSE
  /\ lastEvent' = "disconnect"
  /\ UNCHANGED <<autoConnect, hookState, socketRef>>
  /\ UNCHANGED Rest

\* 'connect_error' of socket k; after the last reconnection attempt it gives up
OnConnectError(k, giveUp) ==
  /\ io[k] = "connecting"
  /\ io' = [io EXCEPT ![k] = IF giveUp THEN "failed" ELSE "connecting"]
  /\ isConnected' = IF hookState = "unmounted" THEN isConnected ELSE FALSE
  /\ lastEvent' = "connect_error"
  /\ UNCHANGED <<autoConnect, hookState, socketRef>>
  /\ UNCHANGED Rest

SocketHook ==
  \/ MountEffect
  \/ \E auto \in BOOLEAN : DepsChange(auto)
  \/ SocketUnmount
  \/ connect
  \/ disconnect
  \/ \E k \in SocketIds : OnConnect(k)
  \/ \E k \in SocketIds : OnDisconnect(k)
  \/ \E k \in SocketIds, giveUp \in BOOLEAN : OnConnectError(k, giveUp)

SpecSocket == Init /\ [][SocketHook]_vars

Next ==
  Lifecycle \/ Mesh \/ Roster \/ Controls \/ Churn \/ Faults \/ Leave \/ Nav \/ Page \/ SocketHook

Spec == Init /\ [][Next]_vars

\* ---- the properties ---------------------------------------------------------

OriginatedTo(p) == {h \in OpenCalls : calls[h].peer = p /\ calls[h].dir = "out"}

\* C1: however often peer-joined(X) is delivered, there is at most one open
\* connection handle originated to X (and, the registry being keyed by peerId, at
\* most one record).
C1_OneOriginationPerPeer ==
  \A p \in PeerIds : Cardinality(OriginatedTo(p)) <= 1

\* the grace timer at the head of the queue fires in this step
TimerFires == timers # <<>> /\ timers' = Tail(timers)

\* C2: when the grace timer for X fires while the registry holds the record of an
\* answered call from X, no call is placed and the record is not replaced.
C2_AbandonWhenAnswered ==
  [][(/\ TimerFires
      /\ Has(Head(timers).peerId)
      /\ calls[peersRef[Head(timers).peerId].call].dir = "in")
     => UNCHANGED <<calls, peersRef>>]_vars

\* every event of the three-party scenario has been processed
Final3 ==
  /\ timers = <<>>
  /\ \A p \in PeerIds : participantsRef[p] # NoName /\ CalledBy(p) # {}
  /\ \A h \in OpenCalls : calls[h].streamed

\* C3: whatever the order of the events of the three-party scenario, the final
\* registry holds the same two records: for each participant the name and the
\* camera state it announced, and a remote stream.
C3_SameFinalRecords ==
  Final3 => \A p \in PeerIds :
              /\ Has(p)
              /\ peersRef[p].userName = PeerName(p)
              /\ peersRef[p].isVideoEnabled = NullishTrue(PeerVideo(p))
              /\ peersRef[p].stream # 0

\* C3: a final state of the scenario in which A's record does carry what A
\* announced (the grace timer for A fired last)
C3_AnnouncedRecordReached ==
  /\ Final3
  /\ peersRef["A"].userName = PeerName("A")
  /\ peersRef["A"].isVideoEnabled = NullishTrue(PeerVideo("A"))
  /\ peersRef["A"].stream # 0

\* C4: once the session is closed and no acquisition is pending, every acquired
\* local stream is stopped, every connection handle is closed and every peer
\* endpoint is destroyed.
C4_NoLeakAfterClose ==
  (phase = "closed" /\ \A i \in Runs : runs[i].st # "pending")
  => /\ \A i \in Runs : Acquired(i) => runs[i].stopped
     /\ OpenCalls = {}
     /\ \A i \in Runs : ~PeerAlive(i)

\* C5: every toggleVideo() that reaches the track flips it (so after N calls it
\* is enabled iff N is even) and publishes the new state, and it changes no
\* record, no connection handle and no pending origination.
C5_ToggleDoesNotRenegotiate ==
  /\ [](localStream # 0 => runs[localStream].video = (nToggles % 2 = 0))
  /\ [][nToggles' # nToggles
        => /\ nToggles' = nToggles + 1
           /\ runs'[localStream].video = ~runs[localStream].video
           /\ isVideoOff' = ~runs'[localStream].video
           /\ UNCHANGED <<peersRef, calls, timers>>]_vars

\* C5: the camera was toggled twice while a record and two handles exist
C5_ToggledWithCalls ==
  /\ nToggles = 2
  /\ Cardinality(OpenCalls) >= 2
  /\ \E p \in PeerIds : Has(p)

\* what a roster application may change: names in the cache, and name and camera
\* state of the records of the peers it lists
RosterFrame(r) ==
  /\ UNCHANGED <<calls, timers>>
  /\ \A p \in PeerIds :
        /\ peersRef'[p].call = peersRef[p].call
        /\ peersRef'[p].stream = peersRef[p].stream
        /\ p \notin DOMAIN r => /\ peersRef'[p] = peersRef[p]
                                /\ participantsRef'[p] = participantsRef[p]
        /\ p \in DOMAIN r => participantsRef'[p] = r[p].userName

\* C6: applying a roster snapshot creates and removes no record and touches no
\* handle: a peer the snapshot lacks keeps its record as it is, an unknown
\* peer in the snapshot only gets its name cached.
C6_RosterNonDestructive ==
  [][\/ UNCHANGED <<calls, timers, peersRef, participantsRef>>
     \/ \A r \in NamedRosters : GetUsers(r) => RosterFrame(r)]_vars

\* C6: A is connected with the placeholder name and never named, B is unknown and
\* its name is cached
C6_RosterApplied ==
  /\ Has("A")
  /\ participantsRef["A"] = NoName
  /\ ~Has("B")
  /\ participantsRef["B"] = PeerName("B")
  /\ \A h \in OpenCalls : calls[h].peer = "A"
  /\ timers = <<>>

\* C7: after a failed acquisition the session still joins receive-only: the run
\* that failed eventually announces presence on the socket.
C7_DeniedStillJoins ==
  \A i \in Runs : (runs[i].st = "failed") ~> (joinEmits[i] > 0)

\* C7: the acquisition failed in a mounted session whose socket is connected
C7_AcquisitionFailed ==
  /\ runs[1].st = "failed"
  /\ phase = "active"
  /\ sock = "connected"
  /\ permissionState = "denied"

\* C8: a reconnect of the Call Channel while the session is joined announces
\* presence again and leaves the registry unchanged.
C8_ReannounceOnReconnect ==
  [][(sock = "disconnected" /\ sock' = "connected" /\ phase = "active" /\ isInitialized)
     => /\ \E i \in Runs : joinEmits'[i] = joinEmits[i] + 1
        /\ peersRef' = peersRef]_vars

\* C9: a grace timer that fires after the session was closed places no call and
\* inserts no record.
C9_TimerAfterCloseAbandons ==
  [][(TimerFires /\ phase = "closed") => UNCHANGED <<calls, peersRef>>]_vars

\* C10: whenever the record of a peer disappears or is replaced by a record with
\* another handle, the handle it held is closed.
C10_ClosedBeforeDropped ==
  [][\A p \in PeerIds :
        (Has(p) /\ peersRef'[p].call # peersRef[p].call)
        => ~calls'[peersRef[p].call].open]_vars

\* what the failure of handle h leaves alone: the records and handles of the
\* other peers, the local stream, the socket and the session
ErrorFrame(h) ==
  /\ \A p \in PeerIds \ {calls[h].peer} : peersRef'[p] = peersRef[p]
  /\ \A g \in Handles \ {h} : calls'[g] = calls[g]
  /\ peersRef'[calls[h].peer] = NoRec
  /\ UNCHANGED <<runs, localStream, sock, phase, peerInstance>>

\* C11: a connection error with peer X removes X's record and nothing else: the
\* other records and handles, the local stream, the socket and the session stay
\* as they are; an error of the endpoint itself only publishes a message.
C11_PeerErrorIsLocal ==
  [][/\ \A h \in Handles : CallError(h) => ErrorFrame(h)
     /\ \A i \in Runs : PeerError(i)
          => UNCHANGED <<peersRef, calls, runs, localStream, sock, phase>>]_vars

\* C11: the endpoint reported an error and the connection to A is gone, while B
\* is still connected with its stream in an active session
C11_ErrorAbsorbed ==
  /\ error = "peer"
  /\ participantsRef["A"] # NoName /\ ~Has("A") /\ timers = <<>>
  /\ \A h \in OpenCalls : calls[h].peer = "B" /\ calls[h].dir = "out"
  /\ Has("B") /\ peersRef["B"].stream # 0
  /\ phase = "active" /\ sock = "connected" /\ ~runs[localStream].stopped

\* C12: after the user left (hang-up, meeting ended, or unmount) the teardown
\* completes: the session gets closed with both sockets disconnected and an empty
\* registry, and the step that closes it closes every handle the registry held.
C12_TeardownCompletes ==
  /\ (sock = "closed" /\ phase # "closed")
       ~> (/\ phase = "closed" /\ sock = "closed" /\ chat = "closed"
           /\ \A p \in PeerIds : ~Has(p))
  /\ [][(phase # "closed" /\ phase' = "closed")
        => /\ \A p \in PeerIds : Has(p) => ~calls'[peersRef[p].call].open
           /\ \A p \in PeerIds : peersRef'[p] = NoRec
           /\ sock' = "closed" /\ chat' = "closed"]_vars

\* C12: hang-up was pressed while the registry holds A's record with its stream
\* and the unmount has not happened yet
C12_LeavingWithRecord ==
  /\ sock = "closed" /\ chat = "closed" /\ phase = "active"
  /\ Has("A") /\ peersRef["A"].stream # 0
  /\ calls[peersRef["A"].call].open

\* C13: in the two-party scenario without failures and with fair timers and
\* events, the session ends up holding one record with a remote stream for the
\* party it called (B, who joined after it) and one for the party whose call it
\* answered (A, who was there before it).
C13_PairConnects ==
  <>[](/\ Has("A") /\ peersRef["A"].stream # 0 /\ calls[peersRef["A"].call].dir = "in"
       /\ Has("B") /\ peersRef["B"].stream # 0 /\ calls[peersRef["B"].call].dir = "out"
       /\ Cardinality(OpenCalls) = 2)

\* C13: the call to B was placed after the grace interval and its remote stream
\* arrived; A's call was answered and streamed
C13_BothConnected ==
  /\ timers = <<>>
  /\ Has("B") /\ peersRef["B"].stream # 0 /\ calls[peersRef["B"].call].dir = "out"
  /\ peersRef["B"].userName = PeerName("B")
  /\ Has("A") /\ peersRef["A"].stream # 0 /\ calls[peersRef["A"].call].dir = "in"

\* the handles open between the session and p
PairCalls(p) == {h \in OpenCalls : calls[h].peer = p}

\* C14: when the participants join one after another, the session ends up with
\* a streamed record for every other participant, there is never more than one
\* handle per pair, and the session places a call only from the grace timer of a
\* join delivered to it, that is, only to a participant newer than itself.
C14_OneConnectionPerPair ==
  /\ <>[](\A p \in PeerIds : Has(p) /\ peersRef[p].stream # 0 /\ calls[peersRef[p].call].open)
  /\ [](\A p \in PeerIds : Cardinality(PairCalls(p)) <= 1)
  /\ [][\A h \in Handles :
          (~calls[h].open /\ calls'[h].open /\ calls'[h].dir = "out")
          => (TimerFires /\ Head(timers).peerId = calls'[h].peer)]_vars
  /\ [][Len(timers') > Len(timers)
        => \E p \in PeerIds : Newer(p) /\ timers'[Len(timers')].peerId = p]_vars

\* C14: A was older and called, B was newer and was called, both streamed, and
\* the roster named A
C14_MeshComplete ==
  /\ timers = <<>>
  /\ \A p \in PeerIds : Has(p) /\ peersRef[p].stream # 0 /\ Cardinality(PairCalls(p)) = 1
  /\ calls[peersRef["A"].call].dir = "in" /\ peersRef["A"].userName = PeerName("A")
  /\ calls[peersRef["B"].call].dir = "out"

\* C15: no socket is opened and no media acquisition is started for the meeting
\* unless the directory lookup succeeded with a participant count below the cap.
C15_LookupBeforeWork ==
  (sock # "none" \/ chat # "none" \/ \E i \in Runs : runs[i].st # "none")
  => lookup = "ok"

\* C15: the lookup answered that the meeting is full, and the page shows it
C15_RefusedFull ==
  /\ lookup = "full"
  /\ phase = "away"
  /\ sock = "none" /\ chat = "none"

\* C16: every join-room message carries the peerId, the display name and the
\* enabled state the local video track has at that moment, and it is sent only
\* when the local media has been acquired and the socket is connected.
C16_AnnouncementComplete ==
  [][\A i \in Runs :
        joinEmits'[i] # joinEmits[i]
        => /\ lastJoin'.peerId = i
           /\ lastJoin'.userName
           /\ lastJoin'.isVideoEnabled = (IF runs[i].video THEN "true" ELSE "false")
           /\ Acquired(i)
           /\ sock' = "connected"]_vars

\* C16: the endpoint opened while the socket was connected and announced the
\* camera as switched off
C16_AnnouncedCameraOff ==
  /\ lastJoin.peerId = 1
  /\ lastJoin.isVideoEnabled = "false"
  /\ isVideoOff
  /\ isInitialized

\* C17: a disconnect of the Call Channel socket changes no record, closes no
\* handle and stops no local track.
C17_SignalingLossIsHarmless ==
  [][(sock = "connected" /\ sock' = "disconnected")
     => UNCHANGED <<peersRef, peers, calls, runs, localStream, peerInstance, phase>>]_vars

\* C17: the socket is down while A's streamed record, its open handle and the
\* running local stream are still there
C17_ConnectedWhileSignalingDown ==
  /\ sock = "disconnected"
  /\ phase = "active"
  /\ Has("A") /\ peersRef["A"].stream # 0 /\ calls[peersRef["A"].call].open
  /\ localStream # 0 /\ ~runs[localStream].stopped

\* C18: a user-joined notification for a peer that has a record schedules no
\* timer, places no call and leaves every record as it is; it only caches the
\* announced name.
C18_JoinOfKnownPeerIsNoOp ==
  [][\A p \in PeerIds :
        (Has(p) /\ \E v \in VideoFlags : UserJoined(p, PeerName(p), v))
        => /\ UNCHANGED <<peersRef, peers, calls, timers>>
           /\ participantsRef' = [participantsRef EXCEPT ![p] = PeerName(p)]]_vars

\* C18: A's record was created by an answered call before A's name was known,
\* and A's join notification arrived afterwards: the name is cached, the record
\* still shows the placeholder and nothing is scheduled
C18_KnownPeerJoined ==
  /\ Has("A")
  /\ peersRef["A"].userName = Placeholder
  /\ participantsRef["A"] = PeerName("A")
  /\ timers = <<>>
  /\ Cardinality(OpenCalls) = 1

\* C19: handling user-joined(X) for X without a record places no call and
\* inserts no record, it only schedules the grace timer; a call is placed only
\* when a grace timer fires, which then inserts X's record with an absent remote
\* stream, or nothing at all when call() returns nothing.
C19_OriginationDeferred ==
  /\ [][\A p \in PeerIds :
          (~Has(p) /\ \E v \in VideoFlags : UserJoined(p, PeerName(p), v))
          => /\ UNCHANGED <<calls, peersRef, peers>>
             /\ Len(timers') = Len(timers) + 1
             /\ timers'[Len(timers')].peerId = p]_vars
  /\ [][(\E h \in Handles : ~calls[h].open /\ calls'[h].open /\ calls'[h].dir = "out")
        => TimerFires]_vars
  /\ [][TimerFires
        => LET p == Head(timers).peerId IN
           IF PeerCall
           THEN /\ peersRef'[p].call # 0
                /\ ~calls[peersRef'[p].call].open
                /\ calls'[peersRef'[p].call].open
                /\ calls'[peersRef'[p].call].dir = "out"
                /\ peersRef'[p].stream = 0
           ELSE UNCHANGED <<calls, peersRef, peers>>]_vars

\* C19: the grace timer for B fired and placed the call: B's record holds the
\* handle and no remote stream yet
C19_PlacedByTimer ==
  /\ timers = <<>>
  /\ Has("B")
  /\ peersRef["B"].stream = 0
  /\ calls[peersRef["B"].call].dir = "out"
  /\ calls[peersRef["B"].call].open

\* C20: an incoming call is answered when it arrives, with the stream acquired
\* for the endpoint that receives it, and that step creates no record; so every
\* record that holds an answered call has a remote stream.
C20_AnswerThenRegisterOnStream ==
  /\ [][\A h \in Handles :
          (~calls[h].open /\ calls'[h].open /\ calls'[h].dir = "in")
          => /\ calls'[h].local = calls'[h].owner
             /\ Acquired(calls'[h].local)
             /\ UNCHANGED <<peersRef, peers>>]_vars
  /\ [](\A p \in PeerIds :
          (Has(p) /\ calls[peersRef[p].call].dir = "in") => peersRef[p].stream # 0)

\* C20: a call from A was answered and is open, its remote stream has not arrived
\* and A has no record yet
C20_AnsweredNotYetRegistered ==
  /\ \E h \in OpenCalls : calls[h].peer = "A" /\ calls[h].dir = "in" /\ calls[h].local # 0
  /\ ~Has("A")
  /\ \A h \in OpenCalls : calls[h].dir = "in"
  /\ timers = <<>> /\ participantsRef["A"] = NoName

\* C21: a remote stream that arrives for a peer that has a record only sets the
\* record's stream: name, camera state and handle stay as they are, whether the
\* call was placed or answered.
C21_StreamMergesOnly ==
  [][\A h \in Handles :
        (calls[h].open /\ Has(calls[h].peer) /\ RemoteStream(h))
        => LET p == calls[h].peer IN
           /\ peersRef'[p].userName = peersRef[p].userName
           /\ peersRef'[p].isVideoEnabled = peersRef[p].isVideoEnabled
           /\ peersRef'[p].call = peersRef[p].call]_vars

\* C21: on the originating path the stream was merged into B's record, which
\* still says that B's camera is off
C21_OriginatedMerged ==
  /\ Has("B")
  /\ calls[peersRef["B"].call].dir = "out"
  /\ peersRef["B"].stream # 0
  /\ ~peersRef["B"].isVideoEnabled
  /\ peersRef["B"].userName = PeerName("B")
  /\ Cardinality(OpenCalls) = 1

\* the roster was applied and every call has streamed
FinalRace ==
  /\ \A p \in PeerIds : participantsRef[p] # NoName /\ CalledBy(p) # {}
  /\ \A h \in OpenCalls : calls[h].streamed

\* C22: whether the roster is applied before or after the remote stream of a
\* participant's call, the participant's final record carries the name and the
\* camera state of the roster; camera off in the roster gives camera off in the
\* record.
C22_RosterOrderIrrelevant ==
  FinalRace => \A p \in PeerIds :
                 /\ Has(p)
                 /\ peersRef[p].userName = PeerName(p)
                 /\ peersRef[p].isVideoEnabled = NullishTrue(PeerVideo(p))

\* C22: the order in which the roster came after A's stream: A's record says
\* that the camera is off
C22_RosterAfterStream ==
  /\ FinalRace
  /\ Has("A")
  /\ ~peersRef["A"].isVideoEnabled
  /\ peersRef["A"].userName = PeerName("A")

\* C23: the record that the answering path inserts for Y carries the name cached
\* for Y, and the placeholder only if no name is cached; the cache holds the name
\* of the latest roster entry or join notification for Y and is never emptied.
C23_CachedNameUsed ==
  /\ [][\A h \in Handles :
          (calls[h].open /\ calls[h].dir = "in" /\ RemoteStream(h))
          => peersRef'[calls[h].peer].userName =
               (IF participantsRef[calls[h].peer] # NoName
                THEN participantsRef[calls[h].peer] ELSE Placeholder)]_vars
  /\ [][\A n \in Names :
          ((\E v \in VideoFlags : UserJoined("A", n, v))
           \/ (\E r \in RostersOfA : r["A"].userName = n /\ GetUsers(r)))
          => participantsRef'["A"] = n]_vars
  /\ [][\A p \in PeerIds :
          participantsRef[p] # NoName => participantsRef'[p] # NoName]_vars

\* C23: A's record was inserted by the answering path with a name that is not
\* A's first one and not the placeholder, and no call was placed
C23_NamedFromCache ==
  /\ Has("A")
  /\ calls[peersRef["A"].call].dir = "in"
  /\ peersRef["A"].userName = "Bob"
  /\ \A h \in OpenCalls : calls[h].dir = "in"
  /\ timers = <<>>

\* C24: a user-toggled-video notification for a peer with a record sets that
\* record's camera state to the negation of isVideoOff and nothing else; for a
\* peer without a record it changes nothing; no handle, timer or other record is
\* touched either way.
C24_RemoteToggleOnlyFlag ==
  [][\A p \in PeerIds, off \in BOOLEAN :
        UserToggledVideo(p, off)
        => /\ peersRef' = (IF Has(p) THEN [peersRef EXCEPT ![p].isVideoEnabled = ~off]
                           ELSE peersRef)
           /\ UNCHANGED <<calls, timers, participantsRef>>]_vars

\* C24: A, connected by one answered call and never named, switched its camera
\* off: the record says so, and there is still the one handle
C24_RemoteCameraOff ==
  /\ Has("A")
  /\ participantsRef["A"] = NoName
  /\ ~peersRef["A"].isVideoEnabled
  /\ peersRef["A"].stream # 0
  /\ Cardinality(OpenCalls) = 1

\* C25: a user-disconnected notification for X closes the handle of X's record,
\* if there is one, and leaves X without a record; without a record it changes
\* nothing; the records and handles of the other peers stay as they are.
C25_PeerLeftRemovesOnlyThatPeer ==
  [][\A p \in PeerIds :
        UserDisconnected(p)
        => /\ Has(p) => ~calls'[peersRef[p].call].open
           /\ peersRef'[p] = NoRec
           /\ ~Has(p) => UNCHANGED <<calls, peersRef>>
           /\ \A q \in PeerIds \ {p} : peersRef'[q] = peersRef[q]
           /\ \A h \in Handles : calls[h].peer # p => calls'[h] = calls[h]]_vars

\* C25: A, whose join had been announced, is gone without a handle, while B is
\* still connected with its stream
C25_PeerLeft ==
  /\ participantsRef["A"] = PeerName("A")
  /\ ~Has("A")
  /\ timers = <<>>
  /\ Has("B") /\ peersRef["B"].stream # 0
  /\ \A h \in OpenCalls : calls[h].peer = "B"

\* C26: whenever there is a local stream, isMuted is the negation of its audio
\* track's enabled flag and isVideoOff the negation of its video track's; a
\* toggle without a local stream changes nothing.
C26_FlagsMirrorTracks ==
  /\ [](localStream # 0 => /\ isMuted = ~runs[localStream].audio
                           /\ isVideoOff = ~runs[localStream].video)
  /\ [][(localStream = 0 /\ (toggleMute \/ toggleVideo)) => UNCHANGED vars]_vars

\* C26: the user muted and switched the camera off, and flags and tracks agree
C26_MutedAndCameraOff ==
  /\ localStream # 0
  /\ isMuted /\ ~runs[localStream].audio
  /\ isVideoOff /\ ~runs[localStream].video

\* C27: every toggleVideo() that flips the local video track emits exactly one
\* toggle-video message whose isVideoOff equals the new local isVideoOff, and
\* toggleMute() emits nothing on the call channel.
C27_EveryToggleBroadcast ==
  /\ [][nToggles' = nToggles + 1 =>
          /\ Len(toggleEmits') = Len(toggleEmits) + 1
          /\ toggleEmits'[Len(toggleEmits')].isVideoOff = isVideoOff']_vars
  /\ [][toggleMute => UNCHANGED <<toggleEmits, joinEmits>>]_vars

\* The camera was switched off after the endpoint opened, and the switch was
\* broadcast under the endpoint's identifier.
C27_ToggleBroadcast ==
  /\ nToggles = 1 /\ isVideoOff
  /\ Len(toggleEmits) = 1
  /\ toggleEmits[1] = [peerId |-> myPeerId, isVideoOff |-> TRUE]

C29_PermissionFollowsMedia ==
  /\ [](permissionState = "granted" => localStream # 0)
  /\ [](permissionState = "denied" => localStream = 0)
  /\ [][permissionState' # permissionState =>
          /\ permissionState = "prompt"
          /\ permissionState' = "denied" => \E i \in Runs : GumReject(i)]_vars

\* The first media request was rejected: denied, with no local stream.
C29_DeniedWithoutStream ==
  /\ permissionState = "denied" /\ error = "media"
  /\ localStream = 0 /\ run = 1

\* C30: the join form navigates to the conference page only with a meeting ID of
\* exactly six digits, a successful lookup and a participant count below the
\* cap; a bad format, a failed lookup and a full room each set an error, do not
\* navigate and leave isJoining false; the meeting-ID input state is always at
\* most six digits.
C30_JoinFormGuards ==
  /\ [](Len(meetingId) <= IdLen /\ \A k \in 1..Len(meetingId) : meetingId[k] \in DigitChars)
  /\ [][lookup = "pending" /\ phase' # phase =>
          /\ SixDigits(fetchId)
          /\ response'.ok /\ response'.participantCount < Cap]_vars
  /\ [][\/ StartLookup /\ ~SixDigits(meetingId)
        \/ lookup = "pending" /\ lookup' \in {"full", "notfound"}
        => formError' # "" /\ ~isJoining' /\ phase' = "away"]_vars

\* The form navigated: the lookup of a six-digit ID succeeded and the conference
\* page is mounted.
C30_Navigated ==
  /\ phase = "idle" /\ lookup = "ok"
  /\ SixDigits(fetchId) /\ fetchId = meetingId
  /\ response = [ok |-> TRUE, participantCount |-> Cap - 1]
  /\ formError = "" /\ ~isJoining

\* C31: a 'close' event of a handle removes a record only if the record holds
\* that handle; the close of a superseded or duplicate call leaves the record of
\* the other, still open call to the same peer in place.
C31_CloseRemovesOwnRecordOnly ==
  [][\A h \in Handles :
       (calls[h].open /\ CallClose(h) /\ peersRef[calls[h].peer].call # h)
       => peersRef'[calls[h].peer] = peersRef[calls[h].peer]]_vars

\* Two calls to the same peer are open and the record holds one of them.
C31_DuplicateCalls ==
  \E h, g \in OpenCalls :
    /\ h # g /\ calls[h].peer = calls[g].peer
    /\ peersRef[calls[h].peer].call = g

\* C32: once the cleanup of a run of the init effect has run (a later run was
\* started, or the component unmounted), that run creates no peer endpoint,
\* emits no join-room and answers no incoming call, even if its getUserMedia or
\* its endpoint's 'open' completes afterwards.
C32_CleanupCancels ==
  [][\A i \in Runs :
       (runs[i].st # "none" /\ (phase = "closed" \/ i < run))
       => /\ ~(runs[i].st = "pending" /\ runs'[i].st = "connecting")
          /\ joinEmits'[i] = joinEmits[i]
          /\ \A h \in Handles :
               ~(~calls[h].open /\ calls'[h].open /\ calls'[h].owner = i)]_vars

\* The component unmounted while a media request was still pending.
C32_CleanupWhilePending ==
  /\ phase = "closed"
  /\ \E i \in Runs : runs[i].st = "pending"

\* C33: join-meeting is emitted exactly once per established connection of the
\* chat socket; opening or closing the chat panel emits no join-meeting and
\* leaves the message list as it is.
C33_JoinOncePerConnection ==
  /\ [](chat = "connected" => joinMeetingEmits = 1)
  /\ [][toggleChat => (joinMeetingEmits' = joinMeetingEmits /\ messages' = messages)]_vars

\* The chat socket connected, the join was emitted once and answered.
C33_JoinedOnce ==
  /\ chat = "connected" /\ joinMeetingEmits = 1
  /\ joined /\ ~isChatOpen

\* C34: the unread counter is 0 whenever the chat panel is open; a new-message
\* adds exactly one to it only while the panel is closed, opening the panel
\* resets it to 0, and every new-message is appended to the message list in
\* arrival order whatever the panel's state.
C34_UnreadOnlyWhileClosed ==
  /\ [](isChatOpen => unreadMessages = 0)
  /\ [][(sent' = sent + 1 /\ Listening) =>
          /\ messages' = Append(messages, sent')
          /\ unreadMessages' = IF isChatOpen THEN unreadMessages ELSE unreadMessages + 1]_vars
  /\ [][(isChatOpen' /\ ~isChatOpen) => unreadMessages' = 0]_vars

\* Every message of the meeting arrived, the last ones with the panel open.
C34_ReadWhileOpen ==
  /\ isChatOpen /\ unreadMessages = 0
  /\ Listening /\ messages = [k \in 1..MaxMessages |-> k]

\* C35: after a join-error the user is eventually redirected to /meeting; and
\* once handleEndCall has navigated to '/', nothing left over from the
\* conference session changes the route again.
C35_RedirectThenQuiet ==
  /\ (redirects > 0) ~> (route = "meeting")
  /\ [][route = "home" => route' = "home"]_vars

\* A join-error was received and its redirect took the user to /meeting.
C35_Redirected ==
  /\ route = "meeting" /\ phase = "closed"
  /\ redirects = 0 /\ joined

\* C36: a useSocket instance owns at most one socket at any time: every socket
\* that is connecting or connected is the one socketRef holds, a socket is
\* created only when the instance holds no other open socket, after the unmount cleanup the
\* reference is empty and no socket is left open; and while the instance is
\* mounted isConnected is true exactly when the last connection event seen was
\* 'connect'.
C36_OneSocketPerInstance ==
  /\ [](\A k \in SocketIds : io[k] \in {"connecting", "connected"} => k = socketRef)
  /\ [](hookState = "unmounted" => socketRef = 0)
  /\ [](hookState # "unmounted" => (isConnected <=> lastEvent = "connect"))
  /\ [][\A k \in SocketIds : (io[k] = "none" /\ io'[k] # "none") =>
          /\ socketRef' = k
          /\ \A j \in SocketIds \ {k} : io'[j] \in {"none", "closed"}]_vars

\* The instance is on its second socket, connected, and the first one is closed.
C36_SecondSocketConnected ==
  /\ hookState = "mounted" /\ socketRef = 2
  /\ io[1] = "closed" /\ io[2] = "connected"
  /\ isConnected

====
